---- MODULE Spec2Model ----
(***************************************************************************)
(* Model of the ForestscapeMIS booking API (src/index.js and its later     *)
(* revision src/unnamed/part_000): an Express server that reads one Google *)
(* sheet per request, parses loosely formatted dates and numbers, filters  *)
(* by period and aggregates.                                               *)
(*                                                                         *)
(* Conventions of the model                                                *)
(*  - a JavaScript string is a sequence of one-character strings;          *)
(*    Undefined is the one-element sequence <<"undefined">>, which no      *)
(*    text can equal because its element is longer than one character;     *)
(*  - a JavaScript number is a decimal [nan, m, e] meaning m / 10^e;       *)
(*  - a Date is an instant counted in minutes since 1970-01-01T00:00 and   *)
(*    the server's time zone is UTC; NoDate is the null / Invalid Date.    *)
(***************************************************************************)
EXTENDS Integers, Sequences, FiniteSets, TLC

VARIABLES
  version,        \* the revision that runs: "index" or "part_000"
  lenientEngine,  \* how the engine reads a non-ISO "T" date-time
  sheet,          \* the remote range: a sequence of rows of cells
  now,            \* the wall clock (an instant)
  pc,             \* the request in flight: "idle", "awaiting" or "done"
  req,            \* its route and query
  getRowsCalls,   \* calls of getRows made for it
  apiCalls,       \* spreadsheets.values.get calls made for it
  fetched,        \* how its getRows ended: "none", "resolved", "rejected"
  responses,      \* responses sent for it
  log,            \* what console.error received for it
  fn,             \* the helper last applied directly, or "none"
  arg,            \* its arguments
  result          \* its return value

vars ==
  <<version, lenientEngine, sheet, now, pc, req, getRowsCalls,
    apiCalls, fetched, responses, log, fn, arg, result>>

\* ------------------------------------------------------------------ bounds
MaxRows == 2

\* ------------------------------------------------------- strings and chars
Undefined == <<"undefined">>
Empty == <<>>

DigitChars == {"0", "1", "2", "3", "4", "5", "6", "7", "8", "9"}

DigitVal(ch) ==
  CASE ch = "0" -> 0 [] ch = "1" -> 1 [] ch = "2" -> 2 [] ch = "3" -> 3
    [] ch = "4" -> 4 [] ch = "5" -> 5 [] ch = "6" -> 6 [] ch = "7" -> 7
    [] ch = "8" -> 8 [] ch = "9" -> 9

DigitChar(n) ==
  CASE n = 0 -> "0" [] n = 1 -> "1" [] n = 2 -> "2" [] n = 3 -> "3"
    [] n = 4 -> "4" [] n = 5 -> "5" [] n = 6 -> "6" [] n = 7 -> "7"
    [] n = 8 -> "8" [] n = 9 -> "9"

IsSpace(ch) == ch = " "

\* the truthiness of a string-or-undefined value: "" and undefined are falsy
Truthy(s) == s # Undefined /\ s # Empty

RECURSIVE Pow10(_)
Pow10(k) == IF k = 0 THEN 1 ELSE 10 * Pow10(k - 1)

RECURSIVE TrimStart(_)
TrimStart(s) ==
  IF s # <<>> /\ IsSpace(Head(s)) THEN TrimStart(Tail(s)) ELSE s

RECURSIVE TrimEnd(_)
TrimEnd(s) ==
  IF s # <<>> /\ IsSpace(s[Len(s)]) THEN TrimEnd(SubSeq(s, 1, Len(s) - 1))
  ELSE s

\* String.prototype.trim
Trim(s) == TrimEnd(TrimStart(s))

\* the value of a string of digits
RECURSIVE DigitsVal(_)
DigitsVal(s) ==
  IF s = <<>> THEN 0
  ELSE 10 * DigitsVal(SubSeq(s, 1, Len(s) - 1)) + DigitVal(s[Len(s)])

AllDigits(s) == \A i \in 1..Len(s) : s[i] \in DigitChars

\* the longest prefix of s made of digits
RECURSIVE DigitPrefix(_)
DigitPrefix(s) ==
  IF s # <<>> /\ Head(s) \in DigitChars
  THEN <<Head(s)>> \o DigitPrefix(Tail(s))
  ELSE <<>>

\* String(n) for a non-negative integer n
RECURSIVE NatToStr(_)
NatToStr(n) ==
  IF n < 10 THEN <<DigitChar(n)>>
  ELSE NatToStr(n \div 10) \o <<DigitChar(n % 10)>>

\* String.prototype.padStart(2, "0")
PadStart2(s) == IF Len(s) < 2 THEN <<"0">> \o s ELSE s

\* ------------------------------------------------------------ JS numbers
NaN == [nan |-> TRUE, m |-> 0, e |-> 0]
Num(n) == [nan |-> FALSE, m |-> n, e |-> 0]

RECURSIVE Normalize(_)
Normalize(x) ==
  IF x.nan THEN NaN
  ELSE IF x.e > 0 /\ x.m % 10 = 0
       THEN Normalize([nan |-> FALSE, m |-> x.m \div 10, e |-> x.e - 1])
       ELSE x

Dec(mant, exp) == Normalize([nan |-> FALSE, m |-> mant, e |-> exp])

IsNaN(x) == x.nan

\* x > n for an integer n; false when x is NaN
GreaterThan(x, n) == ~x.nan /\ x.m > n * Pow10(x.e)
LessThan(x, n) == ~x.nan /\ x.m < n * Pow10(x.e)

\* !x for a number: NaN and 0 are falsy
NumFalsy(x) == x.nan \/ x.m = 0

MaxOf(a, b) == IF a > b THEN a ELSE b

Add(x, y) ==
  IF x.nan \/ y.nan THEN NaN
  ELSE LET ee == MaxOf(x.e, y.e)
       IN Dec(x.m * Pow10(ee - x.e) + y.m * Pow10(ee - y.e), ee)

\* the index of the first "." of s, or 0
RECURSIVE IndexOfDot(_, _)
IndexOfDot(s, i) ==
  IF i > Len(s) THEN 0 ELSE IF s[i] = "." THEN i ELSE IndexOfDot(s, i + 1)

\* the index of the first "e" or "E" of s, or 0
RECURSIVE IndexOfExponent(_, _)
IndexOfExponent(s, i) ==
  IF i > Len(s) THEN 0
  ELSE IF s[i] \in {"e", "E"} THEN i ELSE IndexOfExponent(s, i + 1)

\* Number(string), ECMAScript StringToNumber, for the decimal literals
\* [+-] digits [. digits] [e [+-] digits] and [+-] . digits [e [+-] digits];
\* "" is 0.  Strings holding any other character are NaN (the model's
\* alphabet has no radix prefix or "Infinity" spelling).  -0 is modelled
\* as 0.
Number(str) ==
  LET Scaled(mant, fracLen, ex) ==
        IF ex >= fracLen THEN Dec(mant * Pow10(ex - fracLen), 0)
        ELSE Dec(mant, fracLen - ex)
      Literal(sign, ip, fp, ex) ==
        IF AllDigits(ip) /\ AllDigits(fp) /\ (ip # <<>> \/ fp # <<>>)
        THEN Scaled(sign * (DigitsVal(ip) * Pow10(Len(fp)) + DigitsVal(fp)),
                    Len(fp), ex)
        ELSE NaN
      AtDot(sign, r, dot, ex) ==
        Literal(sign,
                IF dot = 0 THEN r ELSE SubSeq(r, 1, dot - 1),
                IF dot = 0 THEN <<>> ELSE SubSeq(r, dot + 1, Len(r)),
                ex)
      ExponentDigits(sign, mant, esign, ds, hasExp) ==
        IF hasExp /\ (ds = <<>> \/ ~AllDigits(ds)) THEN NaN
        ELSE AtDot(sign, mant, IndexOfDot(mant, 1),
                   IF hasExp THEN esign * DigitsVal(ds) ELSE 0)
      ExponentPart(sign, mant, et, hasExp) ==
        ExponentDigits(sign, mant,
                       IF et # <<>> /\ Head(et) = "-" THEN -1 ELSE 1,
                       IF et # <<>> /\ Head(et) \in {"+", "-"}
                       THEN Tail(et) ELSE et,
                       hasExp)
      AtExponent(sign, r, k) ==
        ExponentPart(sign,
                     IF k = 0 THEN r ELSE SubSeq(r, 1, k - 1),
                     IF k = 0 THEN <<>> ELSE SubSeq(r, k + 1, Len(r)),
                     k # 0)
      Unsigned(sign, r) == AtExponent(sign, r, IndexOfExponent(r, 1))
      Signed(s) ==
        IF s = <<>> THEN Num(0)
        ELSE Unsigned(IF Head(s) = "-" THEN -1 ELSE 1,
                      IF Head(s) \in {"+", "-"} THEN Tail(s) ELSE s)
  IN Signed(Trim(str))

\* parseInt(string, 10): leading white space, an optional sign, then the
\* longest run of digits; NaN when there is none
ParseInt(str) ==
  LET Digits(sign, ds) ==
        IF ds = <<>> THEN NaN ELSE Num(sign * DigitsVal(ds))
      Signed(s) ==
        IF s # <<>> /\ Head(s) = "-" THEN Digits(-1, DigitPrefix(Tail(s)))
        ELSE IF s # <<>> /\ Head(s) = "+"
             THEN Digits(1, DigitPrefix(Tail(s)))
        ELSE Digits(1, DigitPrefix(s))
  IN Signed(TrimStart(str))

\* String.prototype.replace(/[^0-9.\-]/g, "")
RECURSIVE StripNonNumeric(_)
StripNonNumeric(s) ==
  IF s = <<>> THEN <<>>
  ELSE IF Head(s) \in DigitChars \cup {".", "-"}
       THEN <<Head(s)>> \o StripNonNumeric(Tail(s))
       ELSE StripNonNumeric(Tail(s))

\* parseNumber without its isNaN guard
parseNumber_NoNaNGuard(value) ==
  IF ~Truthy(value) THEN Num(0) ELSE Number(StripNonNumeric(value))

\* parseNumber of both revisions
parseNumber(value) ==
  IF ~Truthy(value) THEN Num(0)
  ELSE LET cleaned == StripNonNumeric(value)
           Guard(n) == IF IsNaN(n) THEN Num(0) ELSE n
       IN Guard(Number(cleaned))

\* ------------------------------------------------------------- calendar
MinutesPerDay == 1440
MinutesPerHour == 60

NoDate == [valid |-> FALSE, t |-> 0]
DateAt(instant) == [valid |-> TRUE, t |-> instant]

IsLeap(y) == (y % 4 = 0 /\ y % 100 # 0) \/ y % 400 = 0

DaysInMonth(y, m) ==
  IF m = 2 THEN (IF IsLeap(y) THEN 29 ELSE 28)
  ELSE IF m \in {4, 6, 9, 11} THEN 30 ELSE 31

\* days from 1970-01-01 to the first of January of year y
DaysBeforeYear(y) ==
  LET p == y - 1
  IN (365 * p + p \div 4 - p \div 100 + p \div 400) - 719162

RECURSIVE DaysBeforeMonth(_, _)
DaysBeforeMonth(y, m) ==
  IF m = 1 THEN 0 ELSE DaysBeforeMonth(y, m - 1) + DaysInMonth(y, m - 1)

\* ECMAScript MakeDay for a month in 1.. (13 is January of the next year)
\* and any integer day of month: out-of-range days roll over
MakeDay(y, m, d) ==
  LET yy == y + (m - 1) \div 12
      mm == ((m - 1) % 12) + 1
  IN DaysBeforeYear(yy) + DaysBeforeMonth(yy, mm) + d - 1

MakeInstant(y, m, d, hh, mi) ==
  MakeDay(y, m, d) * MinutesPerDay + hh * MinutesPerHour + mi

DayOf(t) == t \div MinutesPerDay

\* Date.prototype.getFullYear / getMonth (1-based here) / getDate
getFullYear(t) ==
  LET y0 == 1970 + DayOf(t) \div 366
  IN CHOOSE y \in (y0 - 1)..(y0 + 4) :
       DaysBeforeYear(y) <= DayOf(t) /\ DayOf(t) < DaysBeforeYear(y + 1)

getMonth(t) ==
  LET y == getFullYear(t)
  IN CHOOSE m \in 1..12 :
       /\ MakeDay(y, m, 1) <= DayOf(t)
       /\ DayOf(t) < MakeDay(y, m, 1) + DaysInMonth(y, m)

getDate(t) == DayOf(t) - MakeDay(getFullYear(t), getMonth(t), 1) + 1

getMinuteOfDay(t) == t % MinutesPerDay

\* ------------------------------------------------------- new Date(string)
IsDay(n) == n >= 1 /\ n <= 31
IsMonth(n) == n >= 1 /\ n <= 12

DigitsAt(s, from, to) ==
  to <= Len(s) /\ \A i \in from..to : s[i] \in DigitChars

FieldAt(s, from, to) == DigitsVal(SubSeq(s, from, to))

\* the ECMAScript date-time string format in the widths the program meets:
\* YYYY, YYYY-MM, YYYY-MM-DD, and the last with THH:mm or THH:mm:ss
IsoShape(s) ==
  /\ Len(s) \in {4, 7, 10, 16, 19}
  /\ DigitsAt(s, 1, 4)
  /\ Len(s) >= 7 => s[5] = "-" /\ DigitsAt(s, 6, 7)
  /\ Len(s) >= 10 => s[8] = "-" /\ DigitsAt(s, 9, 10)
  /\ Len(s) >= 16 => s[11] = "T" /\ DigitsAt(s, 12, 13) /\ s[14] = ":"
                        /\ DigitsAt(s, 15, 16)
  /\ Len(s) >= 19 => s[17] = ":" /\ DigitsAt(s, 18, 19)

\* An ISO string with legal fields; a day of 29..31 beyond the month's end
\* rolls over (MakeDay), as V8 does.  Instants are whole minutes: the
\* seconds field is range-checked and carries no weight.
ParseIso(s) ==
  LET y == FieldAt(s, 1, 4)
      mo == IF Len(s) >= 7 THEN FieldAt(s, 6, 7) ELSE 1
      d == IF Len(s) >= 10 THEN FieldAt(s, 9, 10) ELSE 1
      hh == IF Len(s) >= 16 THEN FieldAt(s, 12, 13) ELSE 0
      mi == IF Len(s) >= 16 THEN FieldAt(s, 15, 16) ELSE 0
      ss == IF Len(s) >= 19 THEN FieldAt(s, 18, 19) ELSE 0
  IN IF IsMonth(mo) /\ IsDay(d) /\ hh <= 23 /\ mi <= 59 /\ ss <= 59
     THEN DateAt(MakeInstant(y, mo, d, hh, mi))
     ELSE NoDate

\* V8's legacy date scanner over digits, "/", "-", " ", "+" and letters that
\* spell no keyword: numbers are collected (at most three), one "-" right
\* after a number is skipped, any other sign or any word after a number is
\* illegal, a word right before a number is illegal, the rest is ignored.
RECURSIVE LegacyScan(_, _, _, _)
LegacyScan(s, i, comps, prevNum) ==
  IF i > Len(s) THEN [ok |-> TRUE, comps |-> comps]
  ELSE LET ch == s[i]
           bad == [ok |-> FALSE, comps |-> comps]
       IN IF ch \in DigitChars
          THEN LET run == DigitPrefix(SubSeq(s, i, Len(s)))
               IN IF Len(comps) >= 3 THEN bad
                  ELSE LegacyScan(s, i + Len(run),
                                  Append(comps, DigitsVal(run)), TRUE)
          ELSE IF ch = "-"
          THEN IF prevNum THEN LegacyScan(s, i + 1, comps, FALSE)
               ELSE IF comps # <<>> THEN bad
               ELSE LegacyScan(s, i + 1, comps, FALSE)
          ELSE IF ch = "+"
          THEN IF comps # <<>> THEN bad
               ELSE LegacyScan(s, i + 1, comps, FALSE)
          ELSE IF ch \in {"/", " "}
          THEN LegacyScan(s, i + 1, comps, FALSE)
          ELSE \* a word
               IF comps # <<>> THEN bad
               ELSE IF i < Len(s) /\ s[i + 1] \in DigitChars THEN bad
               ELSE LegacyScan(s, i + 1, comps, FALSE)

\* V8's DayComposer: missing month and day default to 1; three numbers are
\* year-month-day when the first cannot be a day, else month-day-year; a
\* year of 0..49 is 20xx and of 50..99 is 19xx; local midnight.
ParseLegacy(s) ==
  LET Century(y0) ==
        IF y0 <= 49 THEN y0 + 2000 ELSE IF y0 <= 99 THEN y0 + 1900 ELSE y0
      Compose(y0, mo, d) ==
        IF IsMonth(mo) /\ IsDay(d)
        THEN DateAt(MakeInstant(Century(y0), mo, d, 0, 0))
        ELSE NoDate
      Order(c1, c2, c3) ==
        IF ~IsDay(c1) THEN Compose(c1, c2, c3) ELSE Compose(c3, c1, c2)
      Scanned(r, n) ==
        IF ~r.ok \/ n < 1 THEN NoDate
        ELSE Order(r.comps[1],
                   IF n >= 2 THEN r.comps[2] ELSE 1,
                   IF n >= 3 THEN r.comps[3] ELSE 1)
      Composed(r) == Scanned(r, Len(r.comps))
  IN Composed(LegacyScan(s, 1, <<>>, FALSE))

HasChar(s, ch) == \E i \in 1..Len(s) : s[i] = ch

\* the text of s before its first "T"
RECURSIVE BeforeT(_)
BeforeT(s) ==
  IF s = <<>> \/ Head(s) = "T" THEN <<>> ELSE <<Head(s)>> \o BeforeT(Tail(s))

\* new Date(string).  The ISO format is read first; any other text goes to
\* the legacy scanner.  A "T" date-time whose year is not four digits is
\* outside the ISO format and engine-specific: it is either rejected or,
\* by a lenient engine, read from its date part (BeforeT(s) is s itself
\* when s has no "T").
NewDate(s) ==
  IF IsoShape(s) THEN ParseIso(s)
  ELSE IF HasChar(s, "T") /\ ~lenientEngine THEN NoDate
  ELSE ParseLegacy(BeforeT(s))

\* ------------------------------------------------------------ parseDate
SepChars == {"/", "-", " ", ":"}

\* String.prototype.split(/[\/\-\s:]+/)
RECURSIVE SplitRec(_, _, _, _, _)
SplitRec(s, i, cur, acc, inSep) ==
  IF i > Len(s) THEN Append(acc, cur)
  ELSE IF s[i] \in SepChars
       THEN IF inSep THEN SplitRec(s, i + 1, cur, acc, TRUE)
            ELSE SplitRec(s, i + 1, <<>>, Append(acc, cur), TRUE)
       ELSE SplitRec(s, i + 1, Append(cur, s[i]), acc, FALSE)

Split(s) == SplitRec(s, 1, <<>>, <<>>, FALSE)

\* "c is a 4-digit year": c.length === 4 && Number(c) > 1900 && Number(c) < 3000
YearLast(c) ==
  LET Between(n) == GreaterThan(n, 1900) /\ LessThan(n, 3000)
  IN Len(c) = 4 /\ Between(Number(c))

\* "a is a 4-digit year": a.length === 4 && Number(a) > 1900
YearFirst(a) == Len(a) = 4 /\ GreaterThan(Number(a), 1900)

\* day and month by the first part: DD/MM when it exceeds 12, else MM/DD
DayMonthFirst(a, b, c) ==
  LET Assign(first, second, year) ==
        IF GreaterThan(first, 12)
        THEN [day |-> first, month |-> second, year |-> year]
        ELSE [day |-> second, month |-> first, year |-> year]
  IN Assign(ParseInt(a), ParseInt(b), ParseInt(c))

YearMonthDay(a, b, c) ==
  [day |-> ParseInt(c), month |-> ParseInt(b), year |-> ParseInt(a)]

\* the year-last branch always reading month first
FieldsIndex_MonthFirst(a, b, c) ==
  IF YearLast(c) \/ ~YearFirst(a)
  THEN [day |-> ParseInt(b), month |-> ParseInt(a), year |-> ParseInt(c)]
  ELSE YearMonthDay(a, b, c)

\* the branch order of src/index.js: the year-last test comes first
FieldsIndex(a, b, c) ==
  IF YearLast(c) THEN DayMonthFirst(a, b, c)
  ELSE IF YearFirst(a) THEN YearMonthDay(a, b, c)
  ELSE DayMonthFirst(a, b, c)

\* the branch order of src/unnamed/part_000: the year-first test comes first
FieldsPart000(a, b, c) ==
  IF YearFirst(a) THEN YearMonthDay(a, b, c)
  ELSE IF YearLast(c) THEN DayMonthFirst(a, b, c)
  ELSE DayMonthFirst(a, b, c)

Versions == {"index", "part_000"}

\* day, month and year as the manual fallback assigns them from the parts
FallbackFields(ver, parts) ==
  LET a == Trim(parts[1])
      b == Trim(parts[2])
      c == Trim(parts[3])
  IN IF ver = "index" THEN FieldsIndex(a, b, c) ELSE FieldsPart000(a, b, c)

\* `${year}-${month padded}-${day padded}T00:00:00`
IsoOf(f) ==
  NatToStr(f.year.m) \o <<"-">> \o PadStart2(NatToStr(f.month.m)) \o <<"-">>
    \o PadStart2(NatToStr(f.day.m))
    \o <<"T", "0", "0", ":", "0", "0", ":", "0", "0">>

\* the manual fallback, entered when the direct parse gave an Invalid Date
Fallback(ver, clean) ==
  LET Build(f) ==
        IF NumFalsy(f.day) \/ NumFalsy(f.month) \/ NumFalsy(f.year)
        THEN NoDate
        ELSE NewDate(IsoOf(f))
      Parts(parts) ==
        IF Len(parts) < 3 THEN NoDate ELSE Build(FallbackFields(ver, parts))
  IN Parts(Split(clean))

\* parseDate reading every text as day, month, year with no direct parse
parseDate_DayFirst(ver, value) ==
  LET Parts(parts) ==
        IF Len(parts) < 3 THEN NoDate
        ELSE NewDate(IsoOf(YearMonthDay(parts[3], parts[2], parts[1])))
  IN IF ~Truthy(value) THEN NoDate ELSE Parts(Split(Trim(value)))

\* parseDate (NoDate is its null)
parseDate(ver, value) ==
  IF ~Truthy(value) THEN NoDate
  ELSE LET Direct(clean, direct) ==
             IF clean = <<>> THEN NoDate
             ELSE IF direct.valid THEN direct
             ELSE Fallback(ver, clean)
           Cleaned(clean) == Direct(clean, NewDate(clean))
       IN Cleaned(Trim(value))

\* ---------------------------------------------------------------- COLS
CLUSTER ==
  <<"C", "l", "u", "s", "t", "e", "r">>

BOOKING_DATE ==
  <<"B", "o", "o", "k", "i", "n", "g", " ", "D", "a", "t", "e">>

UNIT_NO ==
  <<"U", "n", "i", "t", " ", "N", "o", ".">>

SOLD_STATUS_INDEX ==
  <<"S", "O", "L", "D", "/", "U", "N", "S", "O", "L", "D">>

SOLD_STATUS_PART000 ==
  <<"S", "O", "L", "D", "/", "U", "N", "S", "O">>

CUSTOMER_NAME ==
  <<"C", "u", "s", "t", "o", "m", "e", "r", " ", "n", "a", "m", "e">>

MOBILE ==
  <<"M", "o", "b", "i", "l", "e", " ", "N", "u", "m", "b", "e", "r">>

SALE_PRICE ==
  <<"S", "a", "l", "e", " ", "P", "r", "i", "c", "e">>

GROSS_SALE_VALUE_NO_GST ==
  <<"G", "r", "o", "s", "s", " ", "S", "a", "l", "e", " ", "V", "a", "l",
    "u", "e", " ", "w", "i", "t", "h", "o", "u", "t", " ", "G", "S", "T">>

GROSS_AMOUNT_RECEIVED ==
  <<"G", "r", "o", "s", "s", " ", "A", "m", "o", "u", "n", "t", " ", "R",
    "e", "c", "e", "i", "v", "e", "d">>

SALE_AGREEMENT_STATUS ==
  <<"S", "a", "l", "e", " ", "A", "g", "r", "e", "e", "m", "e", "n", "t",
    " ", "S", "t", "a", "t", "u", "s">>

DEMAND_PERCENT ==
  <<"D", "e", "m", "a", "n", "d", " ", "a", "s", " ", "o", "n", " ", "D",
    "a", "t", "e", " ", "(", "%", ")">>

DEMAND_VALUE ==
  <<"D", "e", "m", "a", "n", "d", " ", "a", "s", " ", "o", "n", " ", "D",
    "a", "t", "e", " ", "(", "V", "a", "l", "u", "e", ")">>

PENDING_DEMAND ==
  <<"P", "e", "n", "d", "i", "n", "g", " ", "D", "e", "m", "a", "n", "d">>

RECEIVABLES ==
  <<"R", "e", "c", "e", "i", "v", "a", "b", "l", "e", "s">>

HOME_LOAN_FINANCED_BY ==
  <<"H", "o", "m", "e", " ", "L", "o", "a", "n", " ", "F", "i", "n", "a",
    "n", "c", "e", "d", " ", "b", "y">>

LOAN_STATUS ==
  <<"L", "o", "a", "n", " ", "S", "t", "a", "t", "u", "s">>

\* COLS.SOLD_STATUS differs between the two revisions
SOLD_STATUS(ver) ==
  IF ver = "index" THEN SOLD_STATUS_INDEX ELSE SOLD_STATUS_PART000

\* ------------------------------------------------------ more string helpers
LowerChars ==
  <<"a", "b", "c", "d", "e", "f", "g", "h", "i", "j", "k", "l", "m",
    "n", "o", "p", "q", "r", "s", "t", "u", "v", "w", "x", "y", "z">>
UpperChars ==
  <<"A", "B", "C", "D", "E", "F", "G", "H", "I", "J", "K", "L", "M",
    "N", "O", "P", "Q", "R", "S", "T", "U", "V", "W", "X", "Y", "Z">>

IndexIn(seq, ch) ==
  IF \E i \in 1..Len(seq) : seq[i] = ch
  THEN CHOOSE i \in 1..Len(seq) : seq[i] = ch
  ELSE 0

\* String.prototype.toUpperCase / toLowerCase
toUpperCase(s) ==
  [i \in 1..Len(s) |->
     IF IndexIn(LowerChars, s[i]) # 0 THEN UpperChars[IndexIn(LowerChars, s[i])]
     ELSE s[i]]
toLowerCase(s) ==
  [i \in 1..Len(s) |->
     IF IndexIn(UpperChars, s[i]) # 0 THEN LowerChars[IndexIn(UpperChars, s[i])]
     ELSE s[i]]

\* String.prototype.includes
includes(s, sub) ==
  \E i \in 1..(Len(s) - Len(sub) + 1) : SubSeq(s, i, i + Len(sub) - 1) = sub

\* String.prototype.replace(/\D/g, "")
RECURSIVE DigitsOnly(_)
DigitsOnly(s) ==
  IF s = <<>> THEN <<>>
  ELSE IF Head(s) \in DigitChars THEN <<Head(s)>> \o DigitsOnly(Tail(s))
       ELSE DigitsOnly(Tail(s))

\* value || fallback on a string-or-undefined value
OrElse(v, fallback) == IF Truthy(v) THEN v ELSE fallback

\* ---------------------------------------------------------------- records
\* A record is an object: its own properties <<name, value>> in creation
\* order.

HasKey(row, key) == \E i \in 1..Len(row) : row[i][1] = key

\* row[key]: undefined when the record has no such property
Get(row, key) ==
  IF HasKey(row, key)
  THEN row[CHOOSE i \in 1..Len(row) : row[i][1] = key][2]
  ELSE Undefined

\* Object.fromEntries: a repeated name keeps its first place and takes the
\* later value
RECURSIVE FromEntries(_, _)
FromEntries(entries, obj) ==
  IF entries = <<>> THEN obj
  ELSE LET e == Head(entries)
       IN FromEntries(Tail(entries),
            IF HasKey(obj, e[1])
            THEN [i \in 1..Len(obj) |-> IF obj[i][1] = e[1] THEN e ELSE obj[i]]
            ELSE Append(obj, e))

\* getRows after the fetch: the first row of the range is the header row,
\* every further row becomes a record keyed by the trimmed headers; a cell
\* the row does not reach is "".
getRows(rows) ==
  IF Len(rows) = 0 THEN <<>>
  ELSE LET headers == [i \in 1..Len(rows[1]) |-> Trim(OrElse(rows[1][i], Empty))]
           cell(r, i) == IF i <= Len(r) THEN Trim(OrElse(r[i], Empty)) ELSE Empty
           record(r) ==
             FromEntries([i \in 1..Len(headers) |-> <<headers[i], cell(r, i)>>],
                         <<>>)
       IN [k \in 1..(Len(rows) - 1) |-> record(rows[k + 1])]

\* --------------------------------------------------------- filterByPeriod
P_today == <<"t", "o", "d", "a", "y">>
P_this_week == <<"t", "h", "i", "s", "_", "w", "e", "e", "k">>
P_this_month == <<"t", "h", "i", "s", "_", "m", "o", "n", "t", "h">>

startOfToday(t) == MakeInstant(getFullYear(t), getMonth(t), getDate(t), 0, 0)
endOfToday(t) ==
  MakeInstant(getFullYear(t), getMonth(t), getDate(t) + 1, 0, 0)
\* one week ago cut to the start of that day
oneWeekAgo_Midnight(t) ==
  MakeDay(getFullYear(t), getMonth(t), getDate(t) - 7) * MinutesPerDay

\* new Date(now) with setDate(now.getDate() - 7): the same time of day
oneWeekAgo(t) ==
  MakeDay(getFullYear(t), getMonth(t), getDate(t) - 7) * MinutesPerDay
    + getMinuteOfDay(t)
startOfMonth(t) == MakeInstant(getFullYear(t), getMonth(t), 1, 0, 0)
endOfMonth(t) == MakeInstant(getFullYear(t), getMonth(t) + 1, 1, 0, 0)

\* the callback testing the period before the date
KeepsRow_PeriodFirst(ver, row, period, dateColumn, t) ==
  LET Within(d) ==
        IF period \notin {P_today, P_this_week, P_this_month} THEN TRUE
        ELSE IF ~d.valid THEN FALSE
        ELSE IF period = P_today
             THEN d.t >= startOfToday(t) /\ d.t < endOfToday(t)
        ELSE IF period = P_this_week
             THEN d.t >= oneWeekAgo(t) /\ d.t <= t
        ELSE d.t >= startOfMonth(t) /\ d.t < endOfMonth(t)
  IN Within(parseDate(ver, Get(row, dateColumn)))

\* the callback of data.filter
KeepsRow(ver, row, period, dateColumn, t) ==
  LET Within(d) ==
        IF ~d.valid THEN FALSE
        ELSE IF period = P_today
             THEN d.t >= startOfToday(t) /\ d.t < endOfToday(t)
        ELSE IF period = P_this_week
             THEN d.t >= oneWeekAgo(t) /\ d.t <= t
        ELSE IF period = P_this_month
             THEN d.t >= startOfMonth(t) /\ d.t < endOfMonth(t)
        ELSE TRUE
  IN Within(parseDate(ver, Get(row, dateColumn)))

\* filterByPeriod whose switch falls through to the "today" window
filterByPeriod_UnknownIsToday(ver, data, period, dateColumn, t) ==
  LET Keep(row) ==
        KeepsRow(ver, row,
                 IF period \in {P_today, P_this_week, P_this_month}
                 THEN period ELSE P_today,
                 dateColumn, t)
  IN SelectSeq(data, Keep)

\* filterByPeriod called at instant t
filterByPeriod(ver, data, period, dateColumn, t) ==
  LET Keep(row) == KeepsRow(ver, row, period, dateColumn, t)
  IN SelectSeq(data, Keep)

\* -------------------------------------------------------------- groupCount
S_Unknown == <<"U", "n", "k", "n", "o", "w", "n">>
S_proto == <<"_", "_", "p", "r", "o", "t", "o", "_", "_">>

\* names every object literal inherits from Object.prototype as functions
InheritedFunctionKeys ==
  { <<"c", "o", "n", "s", "t", "r", "u", "c", "t", "o", "r">>,
    <<"t", "o", "S", "t", "r", "i", "n", "g">>,
    <<"v", "a", "l", "u", "e", "O", "f">> }

\* an integer-index property name: canonical digits below 2^32 - 1
IsIndexKey(label) ==
  /\ label # <<>>
  /\ AllDigits(label)
  /\ Len(label) <= 9
  /\ (Head(label) = "0" => Len(label) = 1)

\* counts[val] = (counts[val] || 0) + 1 on the object literal `counts`, kept
\* as its own properties in creation order.  A property whose count is a
\* number has numeric = TRUE.  Reading an inherited function gives a truthy
\* non-number, so `+ 1` concatenates: the own property created is the
\* function's text followed by `count` ones (numeric = FALSE).  Assigning a
\* string to __proto__ creates no property.
Tally(counts, val) ==
  IF \E i \in 1..Len(counts) : counts[i].label = val
  THEN [i \in 1..Len(counts) |->
          IF counts[i].label = val
          THEN [counts[i] EXCEPT !.count = @ + 1]
          ELSE counts[i]]
  ELSE IF val = S_proto THEN counts
  ELSE Append(counts, [label |-> val, count |-> 1,
                       numeric |-> val \notin InheritedFunctionKeys])

RECURSIVE TallyAll(_, _, _)
TallyAll(data, key, counts) ==
  IF data = <<>> THEN counts
  ELSE LET val == OrElse(Trim(OrElse(Get(Head(data), key), S_Unknown)),
                         S_Unknown)
       IN TallyAll(Tail(data), key, Tally(counts, val))

\* insertion of x into a sequence kept ascending by index value
InsertIndexKey(sorted, x) ==
  LET less == {j \in 1..Len(sorted) :
                 DigitsVal(sorted[j].label) < DigitsVal(x.label)}
      k == Cardinality(less)
  IN SubSeq(sorted, 1, k) \o <<x>> \o SubSeq(sorted, k + 1, Len(sorted))

RECURSIVE SortIndexKeys(_)
SortIndexKeys(es) ==
  IF es = <<>> THEN <<>>
  ELSE InsertIndexKey(SortIndexKeys(SubSeq(es, 1, Len(es) - 1)), es[Len(es)])

\* Object.entries: integer-index names ascending, then the other names in
\* creation order
ObjectEntries(counts) ==
  LET IsIdx(e) == IsIndexKey(e.label)
      NotIdx(e) == ~IsIndexKey(e.label)
  IN SortIndexKeys(SelectSeq(counts, IsIdx)) \o SelectSeq(counts, NotIdx)

\* the comparator (a, b) => b[1] - a[1] is positive; NaN (a count that is
\* not a number) compares as equal
ComparesAfter(a, b) == a.numeric /\ b.numeric /\ b.count - a.count > 0

\* stable insertion: x goes right after the last element it need not precede
InsertByCount(sorted, x) ==
  LET stay == {j \in 1..Len(sorted) : ~ComparesAfter(sorted[j], x)}
      k == IF stay = {} THEN 0 ELSE CHOOSE j \in stay : \A i \in stay : i <= j
  IN SubSeq(sorted, 1, k) \o <<x>> \o SubSeq(sorted, k + 1, Len(sorted))

\* Array.prototype.sort with that comparator (stable)
RECURSIVE SortByCount(_)
SortByCount(es) ==
  IF es = <<>> THEN <<>>
  ELSE InsertByCount(SortByCount(SubSeq(es, 1, Len(es) - 1)), es[Len(es)])

groupCount(data, key) == SortByCount(ObjectEntries(TallyAll(data, key, <<>>)))

\* ---------------------------------------------------- the request state
NoReq == [route |-> "none"]
NoResult == [none |-> TRUE]
NoArg == [none |-> TRUE]

\* no request in flight
ServerIdle ==
  /\ pc = "idle"
  /\ req = NoReq
  /\ getRowsCalls = 0
  /\ apiCalls = 0
  /\ fetched = "none"
  /\ responses = <<>>
  /\ log = <<>>

serverVars == <<pc, req, getRowsCalls, apiCalls, fetched, responses, log>>
envVars == <<version, lenientEngine, sheet, now>>
helperVars == <<fn, arg, result>>

\* ------------------------------------------- the helpers applied to a cell
\* every text over NumAlphabet of at most MaxNumLen characters
MaxNumLen == 3
NumAlphabet == {"5", "0", ".", "-", ",", "a"}

RECURSIVE TextsUpTo(_, _)
TextsUpTo(alphabet, n) ==
  IF n = 0 THEN {<<>>}
  ELSE LET shorter == TextsUpTo(alphabet, n - 1)
       IN shorter \cup {Append(t, ch) : t \in shorter, ch \in alphabet}

NumberCells ==
  TextsUpTo(NumAlphabet, MaxNumLen) \cup
  { Undefined,
    <<"1", ",", "2", "3", ",", "4", "5", "6", ".", "7", "8">>,
    <<"$", " ", "5", "0", ",", "0", "0", "0">>,
    <<"5", "0", ",", "0", "0", "0", "-">>,
    <<"a", "b", "c">>,
    <<" ", "1", "2", " ">> }

\* date cells: three components joined by one separator, two components,
\* and texts of other shapes; "20e2" is four characters long and Number
\* reads it as 2000 while parseInt reads it as 20
FirstParts ==
  { <<"0", "5">>,
    <<"1", "3">>,
    <<"0">>,
    <<"x">>,
    <<"2", "0", "2", "4">>,
    <<"3", "1">>,
    <<"+", "5">>,
    <<"2", "0", "e", "2">> }
SecondParts ==
  { <<"0", "3">>,
    <<"1", "3">>,
    <<"0">>,
    <<"x">>,
    <<"0", "2">> }
ThirdParts ==
  { <<"2", "0", "2", "4">>,
    <<"2", "4">>,
    <<"4", "5">>,
    <<"0">>,
    <<"3", "0", "0", "0">>,
    <<"1", "9", "0", "1">>,
    <<"1", "9", "0", "0">>,
    <<"2", "0", "2", "5">>,
    <<"0", "5">>,
    <<"x">>,
    <<"2", "9", "9", "9">>,
    <<"2", "0", "e", "2">> }
DateSeps == {"/", "-", " "}

DateCells ==
  {a \o <<sp>> \o b \o <<sp>> \o c :
     a \in FirstParts, b \in SecondParts, c \in ThirdParts, sp \in DateSeps}
  \cup {a \o <<sp>> \o b : a \in FirstParts, b \in SecondParts, sp \in DateSeps}
  \cup { Undefined, <<>>, <<" ", " ">>,
         <<"x", " ", "y">>,
         <<"2", "0", "2", "4", "-", "0", "3", "-", "0", "5", "T", "1", "8", ":", "0", "0">>,
         <<"2", "0", "2", "4", "-", "0", "3", "-", "0", "5", "T", "1", "8", ":", "0", "0", ":", "3", "0">>,
         <<"2", "0", "2", "4">>,
         <<"2", "0", "2", "4", "-", "0", "3">>,
         <<"5">>,
         <<" ", "0", "5", "/", "0", "3", "/", "2", "0", "2", "4", " ">> }

Cells == NumberCells \cup DateCells

InitParse ==
  /\ version \in Versions
  /\ lenientEngine \in BOOLEAN
  /\ sheet = <<>>
  /\ now = 0
  /\ ServerIdle
  /\ fn = "none"
  /\ arg \in Cells
  /\ result = NoResult

ApplyParseDate ==
  /\ fn = "none"
  /\ fn' = "parseDate"
  /\ result' = parseDate(version, arg)
  /\ UNCHANGED <<envVars, serverVars, arg>>

ApplyParseNumber ==
  /\ fn = "none"
  /\ fn' = "parseNumber"
  /\ result' = parseNumber(arg)
  /\ UNCHANGED <<envVars, serverVars, arg>>

NextParse == ApplyParseDate \/ ApplyParseNumber

SpecParse == InitParse /\ [][NextParse]_vars

\* ------------------------------------------------------------- handlers
S_SOLD == <<"S", "O", "L", "D">>
S_UNSOLD == <<"U", "N", "S", "O", "L", "D">>
S_all == <<"a", "l", "l">>

CountWhere(data, Test(_)) == Len(SelectSeq(data, Test))

Ok(body) == [status |-> 200, body |-> body]

\* the body of a handler's try block: what it answers, or the error thrown
Answer(response) == [threw |-> FALSE, response |-> response, error |-> "none"]
Throws(error) == [threw |-> TRUE, response |-> Ok(<<>>), error |-> error]

\* GET /bookings/summary after the fetch, at instant t
BookingsSummary(ver, data, q, t) ==
  LET status(r) == toUpperCase(OrElse(Get(r, SOLD_STATUS(ver)), Empty))
      IsSold(r) == includes(status(r), S_SOLD)
      IsUnsold(r) == includes(status(r), S_UNSOLD)
      Summary(period, filtered) ==
        Answer(Ok([period |-> period,
                   total_bookings |-> Len(filtered),
                   sold |-> CountWhere(filtered, IsSold),
                   unsold |-> CountWhere(filtered, IsUnsold),
                   by_cluster |-> groupCount(filtered, CLUSTER)]))
      Filtered(period) ==
        Summary(period, filterByPeriod(ver, data, period, BOOKING_DATE, t))
  IN Filtered(IF q.period = Undefined THEN P_this_month ELSE q.period)

\* GET /bookings running the period filter whether or not period is given
Bookings_AlwaysFilters(ver, data, q, t) ==
  LET SameCluster(r) ==
        toLowerCase(OrElse(Get(r, CLUSTER), Empty)) = toLowerCase(q.cluster)
      HasStatus(r) ==
        includes(toLowerCase(OrElse(Get(r, SOLD_STATUS(ver)), Empty)),
                 toLowerCase(q.status))
      Listed(d3) == Answer(Ok([count |-> Len(d3), bookings |-> d3]))
      ByStatus(d2) ==
        Listed(IF Truthy(q.status) THEN SelectSeq(d2, HasStatus) ELSE d2)
      ByCluster(d1) ==
        ByStatus(IF Truthy(q.cluster) THEN SelectSeq(d1, SameCluster) ELSE d1)
  IN ByCluster(filterByPeriod(ver, data, q.period, BOOKING_DATE, t))

\* GET /bookings after the fetch
Bookings(ver, data, q, t) ==
  LET SameCluster(r) ==
        toLowerCase(OrElse(Get(r, CLUSTER), Empty)) = toLowerCase(q.cluster)
      HasStatus(r) ==
        includes(toLowerCase(OrElse(Get(r, SOLD_STATUS(ver)), Empty)),
                 toLowerCase(q.status))
      Listed(d3) == Answer(Ok([count |-> Len(d3), bookings |-> d3]))
      ByStatus(d2) ==
        Listed(IF Truthy(q.status) THEN SelectSeq(d2, HasStatus) ELSE d2)
      ByCluster(d1) ==
        ByStatus(IF Truthy(q.cluster) THEN SelectSeq(d1, SameCluster) ELSE d1)
  IN ByCluster(IF Truthy(q.period)
               THEN filterByPeriod(ver, data, q.period, BOOKING_DATE, t)
               ELSE data)

RECURSIVE SumField(_, _)
SumField(data, key) ==
  IF data = <<>> THEN Num(0)
  ELSE Add(parseNumber(Get(Head(data), key)), SumField(Tail(data), key))

RevenueBody(q, data, kSale, kGross, kReceived, kPending, kReceivables) ==
  [period |-> OrElse(q.period, S_all),
   total_records |-> Len(data),
   total_sale_price |-> SumField(data, kSale),
   total_gross_sale_value_without_gst |-> SumField(data, kGross),
   total_gross_amount_received |-> SumField(data, kReceived),
   total_pending_demand |-> SumField(data, kPending),
   total_receivables |-> SumField(data, kReceivables)]

\* GET /revenue/summary of src/index.js after the fetch
RevenueSummaryIndex(data, q, t) ==
  LET d1 == IF Truthy(q.period)
            THEN filterByPeriod("index", data, q.period, BOOKING_DATE, t)
            ELSE data
  IN Answer(Ok(RevenueBody(q, d1, SALE_PRICE, GROSS_SALE_VALUE_NO_GST,
                           GROSS_AMOUNT_RECEIVED, PENDING_DEMAND,
                           RECEIVABLES)))

\* String.prototype.replace(/\s+/g, " ")
RECURSIVE CollapseSpaces(_)
CollapseSpaces(s) ==
  IF s = <<>> THEN <<>>
  ELSE IF IsSpace(Head(s))
       THEN <<" ">> \o CollapseSpaces(TrimStart(s))
       ELSE <<Head(s)>> \o CollapseSpaces(Tail(s))

norm(s) == Trim(CollapseSpaces(toLowerCase(OrElse(s, Empty))))

\* Array.prototype.find: the first element passing the test, or undefined
Find(seq, Test(_)) ==
  IF \E i \in 1..Len(seq) : Test(seq[i])
  THEN seq[CHOOSE i \in 1..Len(seq) :
             Test(seq[i]) /\ \A j \in 1..(i - 1) : ~Test(seq[j])]
  ELSE Undefined

\* insertion of the name x into names kept ascending by index value
InsertIndexName(sorted, x) ==
  LET k == Cardinality({j \in 1..Len(sorted) :
                          DigitsVal(sorted[j]) < DigitsVal(x)})
  IN SubSeq(sorted, 1, k) \o <<x>> \o SubSeq(sorted, k + 1, Len(sorted))

RECURSIVE SortIndexNames(_)
SortIndexNames(ns) ==
  IF ns = <<>> THEN <<>>
  ELSE InsertIndexName(SortIndexNames(SubSeq(ns, 1, Len(ns) - 1)), ns[Len(ns)])

\* Object.keys of a record: integer-index names ascending, then the others
\* in creation order
ObjectKeys(row) ==
  LET names == [i \in 1..Len(row) |-> row[i][1]]
      NotIndexKey(n) == ~IsIndexKey(n)
  IN SortIndexNames(SelectSeq(names, IsIndexKey))
       \o SelectSeq(names, NotIndexKey)

\* findKey taking the first header that contains the label
findKey_FirstMatch(keys, label) ==
  LET target == norm(label)
      Contains(k) == includes(norm(k), target)
  IN Find(keys, Contains)

\* findKey: an exactly matching header, else one containing the label
findKey(keys, label) ==
  LET target == norm(label)
      Exact(k) == norm(k) = target
      Contains(k) == includes(norm(k), target)
  IN OrElse(Find(keys, Exact), Find(keys, Contains))

\* findKey(literal) || findKey(COLS.X) || COLS.X, the literal being the text
\* of COLS.X
ResolveKey(keys, col) ==
  OrElse(OrElse(findKey(keys, col), findKey(keys, col)), col)

\* GET /revenue/summary of src/unnamed/part_000 after the fetch; Object.keys
\* of data[0] throws a TypeError when the period filter left no record
RevenueSummaryPart000(data, q, t) ==
  LET Resolved(d1, keys) ==
        Answer(Ok(RevenueBody(q, d1,
                    ResolveKey(keys, SALE_PRICE),
                    ResolveKey(keys, GROSS_SALE_VALUE_NO_GST),
                    ResolveKey(keys, GROSS_AMOUNT_RECEIVED),
                    ResolveKey(keys, PENDING_DEMAND),
                    ResolveKey(keys, RECEIVABLES))))
      Filtered(d1) ==
        IF Len(d1) = 0
        THEN Throws("TypeError: Cannot convert undefined or null to object")
        ELSE Resolved(d1, ObjectKeys(d1[1]))
  IN IF Len(data) = 0
     THEN Answer(Ok([period |-> OrElse(q.period, S_all),
                     total_records |-> 0,
                     total_sale_price |-> Num(0),
                     total_gross_sale_value_without_gst |-> Num(0),
                     total_gross_amount_received |-> Num(0),
                     total_pending_demand |-> Num(0),
                     total_receivables |-> Num(0)]))
     ELSE Filtered(IF Truthy(q.period)
                   THEN filterByPeriod("part_000", data, q.period,
                                       BOOKING_DATE, t)
                   ELSE data)

\* GET /loan-status after the fetch
LoanStatus(data) ==
  Answer(Ok([total_records |-> Len(data),
             financed_by |-> groupCount(data, HOME_LOAN_FINANCED_BY),
             loan_status |-> groupCount(data, LOAN_STATUS)]))

\* GET /demand/details after the fetch
DemandDetails(data) ==
  LET entry(r) == [cluster |-> Get(r, CLUSTER),
                   unit_no |-> Get(r, UNIT_NO),
                   customer_name |-> Get(r, CUSTOMER_NAME),
                   booking_date |-> Get(r, BOOKING_DATE),
                   sale_agreement_status |-> Get(r, SALE_AGREEMENT_STATUS),
                   demand_percent |-> Get(r, DEMAND_PERCENT),
                   demand_value |-> Get(r, DEMAND_VALUE),
                   pending_demand |-> Get(r, PENDING_DEMAND),
                   receivables |-> Get(r, RECEIVABLES)]
  IN Answer(Ok([count |-> Len(data),
                entries |-> [i \in 1..Len(data) |-> entry(data[i])]]))

\* GET /customer after the fetch
Customer(data, q) ==
  LET HasMobile(r) ==
        includes(DigitsOnly(OrElse(Get(r, MOBILE), Empty)), DigitsOnly(q.mobile))
      SameUnit(r) ==
        toLowerCase(OrElse(Get(r, UNIT_NO), Empty)) = toLowerCase(q.unit)
      Found(d2) == Answer(Ok([count |-> Len(d2), customers |-> d2]))
      ByUnit(d1) ==
        Found(IF Truthy(q.unit) THEN SelectSeq(d1, SameUnit) ELSE d1)
  IN ByUnit(IF Truthy(q.mobile) THEN SelectSeq(data, HasMobile) ELSE data)

\* the try block of a data route once getRows has resolved with data
Handle(ver, route, data, q, t) ==
  CASE route = "/bookings/summary" -> BookingsSummary(ver, data, q, t)
    [] route = "/bookings" -> Bookings(ver, data, q, t)
    [] route = "/revenue/summary" ->
         (IF ver = "index" THEN RevenueSummaryIndex(data, q, t)
          ELSE RevenueSummaryPart000(data, q, t))
    [] route = "/loan-status" -> LoanStatus(data)
    [] route = "/demand/details" -> DemandDetails(data)
    [] route = "/customer" -> Customer(data, q)

\* the message of each route's catch block
RouteError(route) ==
  CASE route = "/bookings/summary" -> "Failed to get bookings summary"
    [] route = "/bookings" -> "Failed to list bookings"
    [] route = "/revenue/summary" -> "Failed to get revenue summary"
    [] route = "/loan-status" -> "Failed to get loan status"
    [] route = "/demand/details" -> "Failed to get demand details"
    [] route = "/customer" -> "Failed to lookup customer"

\* the catch block answering with the caught error's message
ErrorResponse_Leaky(route, error) ==
  [status |-> 500, body |-> [error |-> error]]

\* the catch block: res.status(500).json({ error: <fixed message> })
ErrorResponse(route, error) ==
  [status |-> 500, body |-> [error |-> RouteError(route)]]

\* what the catch block hands to console.error
Logged(route, error) == [context |-> route, error |-> error]

\* ------------------------------------------------------ the remote sheet
M_bogus == <<"b", "o", "g", "u", "s">>

\* the header row of the sheet each revision was written for
HeaderRow(ver) ==
  <<BOOKING_DATE, SOLD_STATUS(ver), CLUSTER, SALE_PRICE, MOBILE, UNIT_NO>>

\* sample data rows: booking date, status, cluster, sale price, mobile, unit
\* (the API drops the trailing empty cells of a row)
Row_AtNow10 ==
  << <<"2", "0", "2", "4", "-", "0", "3", "-", "1", "0", "T", "1", "2", ":", "0", "0">>,
     <<"S", "O", "L", "D">>,
     <<"A">>,
     <<"1", ",", "2", "3", ",", "4", "5", "6", ".", "7", "8">>,
     <<"9", "8", "7", "6", "5", " ", "4", "3", "2", "1", "0">>,
     <<"G", "0", "0", "1">> >>

Row_EightDaysBefore10 ==
  << <<"2", "0", "2", "4", "-", "0", "3", "-", "0", "2">>,
     <<"U", "N", "S", "O", "L", "D">>,
     <<"A">>,
     <<"5", "0", ",", "0", "0", "0", "-">>,
     <<>>,
     <<"g", "0", "0", "2">> >>

Row_NotADate ==
  << <<"x", " ", "y">>,
     <<"U", "n", "s", "o", "l", "d">>,
     <<"c", "o", "n", "s", "t", "r", "u", "c", "t", "o", "r">>,
     <<"a", "b", "c">>,
     <<"9", "9", "9", "9", "9">>,
     <<"G", "0", "0", "3">> >>

Row_WeekBefore10 ==
  << <<"2", "0", "2", "4", "-", "0", "3", "-", "0", "3", "T", "1", "2", ":", "0", "0">>,
     <<"B", "l", "o", "c", "k", "e", "d">>,
     <<>>,
     <<"$", " ", "5", "0", ",", "0", "0", "0">> >>

Row_LaterOn10 ==
  << <<"2", "0", "2", "4", "-", "0", "3", "-", "1", "0", "T", "1", "8", ":", "0", "0">>,
     <<"s", "o", "l", "d">>,
     <<" ", "B", " ">>,
     <<"5", ".", "5">>,
     <<"9", "8", "-", "7", "6", "5">>,
     <<"G", "0", "0", "1">> >>

Row_Feb27 ==
  << <<"2", "7", "/", "0", "2", "/", "2", "0", "2", "4">>,
     <<>>,
     <<"2">>,
     <<"0", ".", "5">> >>

Row_AtNow5 ==
  << <<"2", "0", "2", "4", "-", "0", "3", "-", "0", "5", "T", "1", "2", ":", "0", "0">>,
     <<"U", "N", "S", "O", "L", "D">>,
     <<"_", "_", "p", "r", "o", "t", "o", "_", "_">>,
     <<"1", "0">> >>

Row_NoDate ==
  << <<>> >>

DataRows ==
  { Row_AtNow10, Row_EightDaysBefore10, Row_NotADate, Row_WeekBefore10,
    Row_LaterOn10, Row_Feb27, Row_AtNow5, Row_NoDate }

RECURSIVE SeqsUpTo(_, _)
SeqsUpTo(S, n) ==
  IF n = 0 THEN {<<>>}
  ELSE LET shorter == SeqsUpTo(S, n - 1)
       IN shorter \cup {Append(q, x) : q \in shorter, x \in S}

\* the ranges the sheet may hold: nothing at all, or the header row and up
\* to MaxRows data rows
Sheets(ver, rowSet) ==
  {<<>>} \cup {<<HeaderRow(ver)>> \o q : q \in SeqsUpTo(rowSet, MaxRows)}

\* the instants of the calls
NowSamples ==
  {MakeInstant(2024, 3, 5, 12, 0), MakeInstant(2024, 3, 10, 12, 0)}

Periods == {Undefined, <<>>, P_today, P_this_week, P_this_month, M_bogus}

\* ------------------------------------------------------------ the server
Q_cluster == <<"a">>
Q_status == <<"s", "o", "l", "d">>
Q_mobile == <<"9", "8", "7", "6", "5">>
Q_unit == <<"g", "0", "0", "1">>

Query(period, cluster, status, mobile, unit) ==
  [period |-> period, cluster |-> cluster, status |-> status,
   mobile |-> mobile, unit |-> unit]

NoQuery == Query(Undefined, Undefined, Undefined, Undefined, Undefined)

\* the requests of the model: each data route with its query parameters
\* absent, empty or set
Requests ==
  {[route |-> "/bookings/summary", query |-> [NoQuery EXCEPT !.period = p]] :
     p \in Periods}
  \cup
  {[route |-> "/bookings", query |-> Query(p, c, st, Undefined, Undefined)] :
     p \in {Undefined, <<>>, P_this_week, M_bogus},
     c \in {Undefined, Q_cluster},
     st \in {Undefined, Q_status}}
  \cup
  {[route |-> "/revenue/summary", query |-> [NoQuery EXCEPT !.period = p]] :
     p \in {Undefined, <<>>, P_today, P_this_month, M_bogus}}
  \cup
  {[route |-> r, query |-> NoQuery] : r \in {"/loan-status", "/demand/details"}}
  \cup
  {[route |-> "/customer",
    query |-> Query(Undefined, Undefined, Undefined, m, u)] :
     m \in {Undefined, <<>>, Q_mobile}, u \in {Undefined, <<>>, Q_unit}}

\* what makes getRows reject
FetchFailures == {"key missing", "key malformed", "fetch failed"}

\* the error getRows rejects with
ThrownError(ver, cause) ==
  CASE cause = "key missing" ->
         (IF ver = "index" THEN "SyntaxError: \"undefined\" is not valid JSON"
          ELSE "Error: GOOGLE_SERVICE_KEY env var is missing")
    [] cause = "key malformed" -> "SyntaxError: Unexpected token in JSON"
    [] cause = "fetch failed" -> "GaxiosError: request failed"

\* /customer given an empty-or-absent mobile only when unit is absent too
MissingCustomerQuery_AbsentOnly(q) == q.mobile = Undefined /\ q.unit = Undefined

\* !mobile && !unit
MissingCustomerQuery(q) == ~Truthy(q.mobile) /\ ~Truthy(q.unit)

BadRequest == [status |-> 400, body |-> [error |-> "Provide mobile or unit query"]]

\* the sheets the server is run against
ServerRows ==
  { Row_AtNow10, Row_EightDaysBefore10, Row_NotADate, Row_LaterOn10 }

Init ==
  /\ version \in Versions
  /\ lenientEngine \in BOOLEAN
  /\ sheet \in Sheets(version, ServerRows)
  /\ now \in NowSamples
  /\ ServerIdle
  /\ fn = "none"
  /\ arg = NoArg
  /\ result = NoResult

\* a request arrives and its handler runs up to `await getRows()`; /customer
\* without mobile and unit answers 400 and returns before that
Receive ==
  /\ pc = "idle"
  /\ \E r \in Requests :
       /\ req' = r
       /\ IF r.route = "/customer" /\ MissingCustomerQuery(r.query)
          THEN /\ responses' = Append(responses, BadRequest)
               /\ pc' = "done"
               /\ getRowsCalls' = getRowsCalls
          ELSE /\ responses' = responses
               /\ pc' = "awaiting"
               /\ getRowsCalls' = getRowsCalls + 1
  /\ UNCHANGED <<envVars, helperVars, apiCalls, fetched, log>>

\* getRows resolves with the records of the sheet and the try block runs to
\* its end; an error it throws goes to the catch block
FetchResolves ==
  /\ pc = "awaiting"
  /\ LET Settle(h) ==
           /\ responses' = Append(responses,
                             IF h.threw THEN ErrorResponse(req.route, h.error)
                             ELSE h.response)
           /\ log' = IF h.threw THEN Append(log, Logged(req.route, h.error))
                     ELSE log
     IN Settle(Handle(version, req.route, getRows(sheet), req.query, now))
  /\ apiCalls' = apiCalls + 1
  /\ fetched' = "resolved"
  /\ pc' = "done"
  /\ UNCHANGED <<envVars, helperVars, req, getRowsCalls>>

\* getRows rejects: the credentials did not load (no API call is made) or
\* the API call failed; the catch block logs and answers
FetchRejects ==
  /\ pc = "awaiting"
  /\ \E cause \in FetchFailures :
       LET error == ThrownError(version, cause)
       IN /\ responses' = Append(responses, ErrorResponse(req.route, error))
          /\ log' = Append(log, Logged(req.route, error))
          /\ apiCalls' = IF cause = "fetch failed" THEN apiCalls + 1
                         ELSE apiCalls
  /\ fetched' = "rejected"
  /\ pc' = "done"
  /\ UNCHANGED <<envVars, helperVars, req, getRowsCalls>>

\* the wall clock moves on
Tick ==
  /\ \E t \in NowSamples : t > now /\ now' = t
  /\ UNCHANGED <<version, lenientEngine, sheet, serverVars, helperVars>>

\* the request is over and its records are discarded
Discard ==
  /\ pc = "done"
  /\ pc' = "idle"
  /\ req' = NoReq
  /\ getRowsCalls' = 0
  /\ apiCalls' = 0
  /\ fetched' = "none"
  /\ responses' = <<>>
  /\ log' = <<>>
  /\ UNCHANGED <<envVars, helperVars>>

Next == Receive \/ FetchResolves \/ FetchRejects \/ Tick \/ Discard

Spec == Init /\ [][Next]_vars

\* ------------------------------------------ the helpers applied to records
InitData ==
  /\ version \in Versions
  /\ lenientEngine \in BOOLEAN
  /\ sheet \in Sheets(version, DataRows)
  /\ now \in NowSamples
  /\ ServerIdle
  /\ fn = "none"
  /\ arg = NoArg
  /\ result = NoResult

ApplyFilterByPeriod ==
  /\ fn = "none"
  /\ \E period \in Periods :
       /\ arg' = [data |-> getRows(sheet), period |-> period]
       /\ result' = filterByPeriod(version, getRows(sheet), period,
                                   BOOKING_DATE, now)
  /\ fn' = "filterByPeriod"
  /\ UNCHANGED <<envVars, serverVars>>

ApplyGroupCount ==
  /\ fn = "none"
  /\ \E key \in {CLUSTER, SOLD_STATUS(version), LOAN_STATUS} :
       /\ arg' = [data |-> getRows(sheet), key |-> key]
       /\ result' = groupCount(getRows(sheet), key)
  /\ fn' = "groupCount"
  /\ UNCHANGED <<envVars, serverVars>>

NextData == ApplyFilterByPeriod \/ ApplyGroupCount

SpecData == InitData /\ [][NextData]_vars

\* ------------------------------- /revenue/summary over other header rows
MaxHeaders == 3

H_NetSalePrice ==
  <<"N", "e", "t", " ", "S", "a", "l", "e", " ", "P", "r", "i", "c", "e">>
H_SalePriceSpaced ==
  <<"S", "A", "L", "E", " ", " ", "P", "R", "I", "C", "E">>
H_TotalReceivables ==
  <<"T", "o", "t", "a", "l", " ", "R", "e", "c", "e", "i", "v", "a", "b",
    "l", "e", "s">>
H_Seven == <<"7">>

HeaderNames ==
  { SALE_PRICE, H_NetSalePrice, H_SalePriceSpaced, RECEIVABLES,
    H_TotalReceivables, H_Seven, CLUSTER }

\* two data rows whose cells tell the columns apart in every sum
Row_Amounts == << <<"1">>, <<"2", "0">>, <<"3", "0", "0">>, <<"4", "0", "0", "0">> >>
Row_MoreAmounts ==
  << <<"5", "0", "0", "0", "0">>, <<"6", "0", "0", "0", "0", "0">>,
     <<"7", ".", "5">>, <<"8", "0", "0", "0", "0", "0", "0">> >>

HeaderRows == SeqsUpTo(HeaderNames, MaxHeaders) \ {<<>>}

InitRevenue ==
  /\ version = "part_000"
  /\ lenientEngine = FALSE
  /\ \E h \in HeaderRows :
       sheet \in {<<h, Row_Amounts>>, <<h, Row_Amounts, Row_MoreAmounts>>}
  /\ now = MakeInstant(2024, 3, 10, 12, 0)
  /\ ServerIdle
  /\ fn = "none"
  /\ arg = NoArg
  /\ result = NoResult

\* the try block of GET /revenue/summary of src/unnamed/part_000 run on the
\* records of the sheet
ApplyRevenueSummary ==
  /\ fn = "none"
  /\ \E period \in {Undefined, <<>>} :
       /\ arg' = [NoQuery EXCEPT !.period = period]
       /\ result' = RevenueSummaryPart000(getRows(sheet),
                       [NoQuery EXCEPT !.period = period], now)
  /\ fn' = "revenueSummary"
  /\ UNCHANGED <<envVars, serverVars>>

SpecRevenue == InitRevenue /\ [][ApplyRevenueSummary]_vars

\* ------------------------------------- a summary endpoint called twice
SummaryRequests ==
  {r \in Requests : r.route \in {"/bookings/summary", "/revenue/summary"}}

\* one whole call of a summary endpoint whose fetch resolves: the first call
\* takes any request, the second repeats it; both responses are kept and
\* `result` lists the instants of the calls
CallSummary ==
  /\ pc \in {"idle", "done"}
  /\ Len(responses) < 2
  /\ \E r \in SummaryRequests :
       /\ responses # <<>> => r = req
       /\ req' = r
       /\ LET Settle(h) ==
                /\ responses' = Append(responses,
                                  IF h.threw THEN ErrorResponse(r.route, h.error)
                                  ELSE h.response)
                /\ log' = IF h.threw THEN Append(log, Logged(r.route, h.error))
                          ELSE log
          IN Settle(Handle(version, r.route, getRows(sheet), r.query, now))
  /\ pc' = "done"
  /\ getRowsCalls' = 1
  /\ apiCalls' = 1
  /\ fetched' = "resolved"
  /\ fn' = "summary"
  /\ arg' = arg
  /\ result' = IF responses = <<>> THEN <<now>> ELSE Append(result, now)
  /\ UNCHANGED envVars

NextTwice == CallSummary \/ Tick

SpecTwice == Init /\ [][NextTwice]_vars

\* ------------------------------------------------------------ claims
S_05_03_2024 == <<"0", "5", "/", "0", "3", "/", "2", "0", "2", "4">>
S_13_03_2024 == <<"1", "3", "/", "0", "3", "/", "2", "0", "2", "4">>
S_50000_trailing == <<"5", "0", ",", "0", "0", "0", "-">>
S_grouped == <<"1", ",", "2", "3", ",", "4", "5", "6", ".", "7", "8">>
S_abc == <<"a", "b", "c">>

\* C8 as stated: parsing "05/03/2024" gives a date with day 5 and month 3
C8_DayFiveMonthThree ==
  (fn = "parseDate" /\ arg = S_05_03_2024) =>
    result.valid /\ getDate(result.t) = 5 /\ getMonth(result.t) = 3

\* C8 amended: parsing "05/03/2024" gives the 3rd of May 2024 at midnight,
\* month 5 and day 3, the first component being the month because it does
\* not exceed 12
C8_MonthFiveDayThree ==
  (fn = "parseDate" /\ arg = S_05_03_2024) =>
    /\ result.valid
    /\ getFullYear(result.t) = 2024
    /\ getMonth(result.t) = 5
    /\ getDate(result.t) = 3
    /\ getMinuteOfDay(result.t) = 0

C8_Witness ==
  fn = "parseDate" /\ arg = S_05_03_2024 /\ result.valid

\* C1: the /bookings/summary response has sold + unsold <= total_bookings,
\* no row being counted both as sold and as unsold
C1_SoldUnsoldWithinTotal ==
  (pc = "done" /\ req.route = "/bookings/summary" /\ fetched = "resolved") =>
    LET body == responses[1].body
    IN body.sold + body.unsold <= body.total_bookings

\* C4: a /customer request with neither mobile nor unit (absent or empty) is
\* answered 400 with an {error} body, and neither getRows nor the sheet API
\* is called for it before or after the response
C4_NoFetchWithoutParams ==
  (req.route = "/customer" /\ ~Truthy(req.query.mobile)
     /\ ~Truthy(req.query.unit)) =>
    /\ getRowsCalls = 0
    /\ apiCalls = 0
    /\ fetched = "none"
    /\ pc = "done"
    /\ Len(responses) = 1
    /\ responses[1].status = 400
    /\ DOMAIN responses[1].body = {"error"}

C4_Witness ==
  /\ req.route = "/customer"
  /\ req.query.mobile = <<>>
  /\ req.query.unit = Undefined
  /\ pc = "done"
  /\ responses[1].status = 400

\* C5: when the credentials load and the fetch succeeds every data route
\* answers with a success body, never 500, whatever the cells hold; with no
\* record left /revenue/summary reports total_records 0 and totals 0
C5_NoErrorFromData ==
  fetched = "resolved" =>
    /\ responses[1].status = 200
    /\ log = <<>>
    /\ (req.route = "/revenue/summary"
          /\ responses[1].body.total_records = 0) =>
         /\ responses[1].body.total_sale_price = Num(0)
         /\ responses[1].body.total_gross_sale_value_without_gst = Num(0)
         /\ responses[1].body.total_gross_amount_received = Num(0)
         /\ responses[1].body.total_pending_demand = Num(0)
         /\ responses[1].body.total_receivables = Num(0)

FixedErrorMessages ==
  { "Failed to get bookings summary", "Failed to list bookings",
    "Failed to get revenue summary", "Failed to get loan status",
    "Failed to get demand details", "Failed to lookup customer" }

\* C6: when credential loading or the sheet fetch fails the request is
\* answered 500 with {error: <the route's fixed message>}, holding nothing of
\* the underlying error and no partial result; one response is sent and the
\* fetch is not retried
C6_FetchFailureIs500 ==
  /\ Len(responses) <= 1
  /\ getRowsCalls <= 1
  /\ apiCalls <= 1
  /\ pc = "done" => Len(responses) = 1
  /\ fetched = "rejected" =>
       /\ pc = "done"
       /\ responses[1].status = 500
       /\ DOMAIN responses[1].body = {"error"}
       /\ responses[1].body.error = RouteError(req.route)
       /\ responses[1].body.error \in FixedErrorMessages
       /\ Len(log) = 1
       /\ responses[1].body.error # log[1].error

C6_Witness ==
  /\ fetched = "rejected"
  /\ pc = "done"
  /\ apiCalls = 0
  /\ responses[1].status = 500

RangeOf(seq) == {seq[i] : i \in 1..Len(seq)}

\* the record has a booking date parseDate accepts
Dated(row) == parseDate(version, Get(row, BOOKING_DATE)).valid

\* C2: filterByPeriod never returns a record whose date field has no
\* parseable date, whatever the period, and under a period other than today,
\* this_week and this_month (undefined included) returns exactly the dated
\* records of the input in their input order
C2_OnlyDatedRecords ==
  fn = "filterByPeriod" =>
    /\ \A i \in 1..Len(result) : Dated(result[i])
    /\ arg.period \notin {P_today, P_this_week, P_this_month} =>
         result = SelectSeq(arg.data, Dated)

C2_Witness ==
  /\ fn = "filterByPeriod"
  /\ arg.period = Undefined
  /\ \E i \in 1..Len(arg.data) : ~Dated(arg.data[i])
  /\ \E i \in 1..Len(arg.data) : Dated(arg.data[i])
  /\ Len(result) = 1

\* the instant of the record's booking date
DateOfRow(row) == parseDate(version, Get(row, BOOKING_DATE)).t

\* d lies in [t - 7 days, t], both ends included
InWeekBefore(d, t) == t - 7 * MinutesPerDay <= d /\ d <= t

\* C3: under this_week filterByPeriod keeps exactly the dated records whose
\* date d has now - 7 days <= d <= now, in input order; so a record dated at
\* now is kept and one dated 8 days before now, or after now, is dropped
C3_ThisWeekWindow ==
  (fn = "filterByPeriod" /\ arg.period = P_this_week) =>
    LET InWindow(row) == Dated(row) /\ InWeekBefore(DateOfRow(row), now)
    IN /\ result = SelectSeq(arg.data, InWindow)
       /\ \A i \in 1..Len(arg.data) :
            LET row == arg.data[i]
            IN Dated(row) =>
                 /\ DateOfRow(row) = now => row \in RangeOf(result)
                 /\ DateOfRow(row) = now - 8 * MinutesPerDay =>
                      row \notin RangeOf(result)
                 /\ DateOfRow(row) > now => row \notin RangeOf(result)

\* a record dated at now is kept while one dated later the same day is not
C3_Witness ==
  /\ fn = "filterByPeriod"
  /\ arg.period = P_this_week
  /\ \E i \in 1..Len(result) : DateOfRow(result[i]) = now
  /\ \E i \in 1..Len(arg.data) :
       /\ Dated(arg.data[i])
       /\ DateOfRow(arg.data[i]) > now
       /\ DayOf(DateOfRow(arg.data[i])) = DayOf(now)
       /\ arg.data[i] \notin RangeOf(result)

\* the label groupCount is to file a record under
LabelOf(row, key) ==
  IF ~Truthy(Get(row, key)) \/ Trim(Get(row, key)) = <<>> THEN S_Unknown
  ELSE Trim(Get(row, key))

RECURSIVE SumCounts(_)
SumCounts(es) == IF es = <<>> THEN 0 ELSE Head(es).count + SumCounts(Tail(es))

\* C7: groupCount returns one {label, count} entry per distinct label, blank
\* and missing values being "Unknown"; each count is the number of records
\* with that label, the counts sum to the number of records, and the entries
\* are in non-increasing order of count
C7_GroupCountTally ==
  fn = "groupCount" =>
    LET labels == {LabelOf(arg.data[i], arg.key) : i \in 1..Len(arg.data)}
        Records(l) == {i \in 1..Len(arg.data) : LabelOf(arg.data[i], arg.key) = l}
    IN /\ {result[i].label : i \in 1..Len(result)} = labels
       /\ Len(result) = Cardinality(labels)
       /\ \A i \in 1..Len(result) :
            /\ result[i].numeric
            /\ result[i].count = Cardinality(Records(result[i].label))
       /\ SumCounts(result) = Len(arg.data)
       /\ \A i, j \in 1..Len(result) :
            i < j => result[i].count >= result[j].count

\* the direct parse of the cell gave an Invalid Date, so that the manual
\* fallback decided the result
DirectFailed(value) ==
  Truthy(value) /\ Trim(value) # <<>> /\ ~NewDate(Trim(value)).valid

\* the date the year-last heuristic names for the parts a, b, c: day a and
\* month b when a exceeds 12, else month a and day b; no date when a field
\* is zero or no number or cannot be a month or a day of a month
YearLastReading(a, b, c) ==
  LET first == ParseInt(a)
      second == ParseInt(b)
      dayFirst == ~first.nan /\ first.m > 12
      d == IF dayFirst THEN first ELSE second
      mo == IF dayFirst THEN second ELSE first
      y == ParseInt(c)
  IN IF d.nan \/ mo.nan \/ y.nan \/ d.m = 0 \/ mo.m = 0 \/ y.m = 0
     THEN NoDate
     ELSE IF mo.m <= 12 /\ d.m <= 31
          THEN DateAt(MakeInstant(y.m, mo.m, d.m, 0, 0))
          ELSE NoDate

\* C9: parseDate returns a valid date or null; when the direct parse fails,
\* fewer than three components give null, a day, month or year that is zero
\* or no number gives null, and with a 4-digit year in (1900,3000) last the
\* result is the date read day-first when the first component exceeds 12
\* and month-first otherwise
C9_FallbackContract ==
  fn = "parseDate" =>
    /\ result = NoDate \/ (result.valid /\ result = DateAt(result.t))
    /\ DirectFailed(arg) =>
         LET parts == Split(Trim(arg))
         IN /\ Len(parts) < 3 => result = NoDate
            /\ Len(parts) >= 3 =>
                 LET f == FallbackFields(version, parts)
                 IN /\ (NumFalsy(f.day) \/ NumFalsy(f.month)
                          \/ NumFalsy(f.year)) => result = NoDate
                    /\ (AllDigits(parts[3]) /\ YearLast(parts[3])) =>
                         result = YearLastReading(parts[1], parts[2], parts[3])

C9_Witness ==
  /\ fn = "parseDate"
  /\ arg = S_13_03_2024
  /\ DirectFailed(arg)
  /\ result.valid
  /\ getDate(result.t) = 13
  /\ getMonth(result.t) = 3

\* what is left of a cell once every character but digits, "." and "-" is
\* removed
Cleaned(value) ==
  SelectSeq(value, LAMBDA ch : ch \in DigitChars \cup {".", "-"})

CountOf(s, chars) == Cardinality({i \in 1..Len(s) : s[i] \in chars})

\* a decimal literal: an optional leading "-", then digits with at most one
\* "." among them and at least one digit
IsDecimalText(s) ==
  LET body == IF s # <<>> /\ Head(s) = "-" THEN Tail(s) ELSE s
  IN /\ CountOf(body, {"-"}) = 0
     /\ CountOf(body, {"."}) <= 1
     /\ CountOf(body, DigitChars) >= 1

\* the value of a decimal literal
DecimalValue(s) ==
  LET digits == SelectSeq(s, LAMBDA ch : ch \in DigitChars)
      dot == CHOOSE i \in 0..Len(s) :
               (i = 0 /\ CountOf(s, {"."}) = 0) \/ (i > 0 /\ s[i] = ".")
      places == IF dot = 0 THEN 0 ELSE Len(s) - dot
      sign == IF Head(s) = "-" THEN -1 ELSE 1
  IN Dec(sign * DigitsVal(digits), places)

C13_RevisionsAgree ==
  (fn = "parseDate" /\ DirectFailed(arg)) =>
    /\ result = parseDate("index", arg)
    /\ result = parseDate("part_000", arg)

\* the header row of the sheet as getRows trims it
TrimmedHeaders == [i \in 1..Len(sheet[1]) |-> Trim(sheet[1][i])]

\* the least member of a non-empty set of indices
Least(S) == CHOOSE i \in S : \A j \in S : i <= j

\* the header the priority order names for a label: the first header equal
\* to it after lower-casing and white-space collapsing, else the first
\* header containing it, else the configured column name
HeaderFor(label) ==
  LET hs == TrimmedHeaders
      exact == {i \in 1..Len(hs) : norm(hs[i]) = norm(label)}
      containing == {i \in 1..Len(hs) : includes(norm(hs[i]), norm(label))}
  IN IF exact # {} THEN hs[Least(exact)]
     ELSE IF containing # {} THEN hs[Least(containing)]
     ELSE label

\* C11: /revenue/summary of src/unnamed/part_000 sums each field over the
\* header resolved in priority order: an exactly matching header (after
\* lower-casing and white-space collapsing) even when a header that only
\* contains the label comes earlier, else the first containing header,
\* else the configured column name
C11_HeaderPriority ==
  (fn = "revenueSummary" /\ ~result.threw) =>
    LET data == getRows(sheet)
        body == result.response.body
    IN /\ body.total_sale_price = SumField(data, HeaderFor(SALE_PRICE))
       /\ body.total_gross_sale_value_without_gst
            = SumField(data, HeaderFor(GROSS_SALE_VALUE_NO_GST))
       /\ body.total_gross_amount_received
            = SumField(data, HeaderFor(GROSS_AMOUNT_RECEIVED))
       /\ body.total_pending_demand
            = SumField(data, HeaderFor(PENDING_DEMAND))
       /\ body.total_receivables = SumField(data, HeaderFor(RECEIVABLES))

\* a containing header stands before the exact one and the sum is the exact
\* header's column
C11_Witness ==
  /\ fn = "revenueSummary"
  /\ sheet = << <<H_NetSalePrice, H_SalePriceSpaced, H_TotalReceivables>>,
                Row_Amounts >>
  /\ ~result.threw
  /\ result.response.body.total_sale_price = Num(20)
  /\ result.response.body.total_receivables = Num(300)
  /\ result.response.body.total_pending_demand = Num(0)

\* the period a summary request filters by
EffectivePeriod(r) ==
  IF r.route = "/bookings/summary" /\ r.query.period = Undefined
  THEN P_this_month
  ELSE r.query.period

IsWindow(period) == period \in {P_today, P_this_week, P_this_month}

\* C12 as stated: two calls of a summary endpoint with the same query and
\* an unchanged sheet answer alike at any two instants
C12_SameAtAnyInstant ==
  (fn = "summary" /\ Len(responses) = 2) => responses[1] = responses[2]

\* C12: two calls of a summary endpoint with the same query and an unchanged
\* sheet answer alike when they are made at the same instant or when the
\* period they filter by is none of today, this_week and this_month
C12_SameOutsideWindows ==
  (/\ fn = "summary"
   /\ Len(responses) = 2
   /\ (result[1] = result[2] \/ ~IsWindow(EffectivePeriod(req))))
    => responses[1] = responses[2]

\* two calls at different instants with an unrecognised period count the
\* same dated records
C12_Witness ==
  /\ fn = "summary"
  /\ Len(responses) = 2
  /\ result[1] # result[2]
  /\ req.route = "/bookings/summary"
  /\ req.query.period = M_bogus
  /\ responses[1] = responses[2]
  /\ responses[1].body.total_bookings = 2

\* the record passes the cluster and status filters of /bookings
MatchesOthers(row) ==
  /\ Truthy(req.query.cluster) =>
       toLowerCase(OrElse(Get(row, CLUSTER), Empty))
         = toLowerCase(req.query.cluster)
  /\ Truthy(req.query.status) =>
       includes(toLowerCase(OrElse(Get(row, SOLD_STATUS(version)), Empty)),
                toLowerCase(req.query.status))

\* the record is dated in the calendar month of the instant t
InMonthOf(row, t) ==
  LET SameMonth(d) ==
        getFullYear(d) = getFullYear(t) /\ getMonth(d) = getMonth(t)
  IN Dated(row) /\ SameMonth(DateOfRow(row))

InThisMonth(row) == InMonthOf(row, now)

\* C14: /bookings and /revenue/summary filter by period only when period is
\* non-empty: without it they count every loaded record (for /bookings,
\* every one passing the cluster and status filters), undated ones
\* included; with any non-empty period no undated record is counted, and an
\* unrecognised period counts exactly the dated ones.  /bookings/summary
\* always filters, by this_month when period is omitted.
C14_PeriodFilterRuns ==
  (pc = "done" /\ fetched = "resolved" /\ responses[1].status = 200) =>
    LET Check(data, dated, period, body) ==
          /\ req.route = "/bookings" =>
                /\ body.count = Len(body.bookings)
                /\ ~Truthy(period) =>
                     body.bookings = SelectSeq(data, MatchesOthers)
                /\ Truthy(period) =>
                     RangeOf(body.bookings) \subseteq RangeOf(dated)
                /\ (Truthy(period) /\ ~IsWindow(period)) =>
                     body.bookings = SelectSeq(dated, MatchesOthers)
          /\ req.route = "/revenue/summary" =>
                /\ ~Truthy(period) => body.total_records = Len(data)
                /\ Truthy(period) => body.total_records <= Len(dated)
                /\ (Truthy(period) /\ ~IsWindow(period)) =>
                     body.total_records = Len(dated)
          /\ req.route = "/bookings/summary" =>
                /\ body.total_bookings <= Len(dated)
                /\ ~IsWindow(EffectivePeriod(req)) =>
                     body.total_bookings = Len(dated)
                /\ period = Undefined =>
                     /\ body.period = P_this_month
                     /\ body.total_bookings = Len(SelectSeq(data, InThisMonth))
        Rows(data) ==
          Check(data, SelectSeq(data, Dated), req.query.period,
                responses[1].body)
    IN Rows(getRows(sheet))

\* /bookings without a period lists an undated record, and with an
\* unrecognised period does not
C14_Witness ==
  /\ pc = "done"
  /\ fetched = "resolved"
  /\ req.route = "/bookings"
  /\ req.query.period = Undefined
  /\ req.query.cluster = Undefined
  /\ req.query.status = Undefined
  /\ sheet = <<HeaderRow(version), Row_AtNow10, Row_NotADate>>
  /\ responses[1].status = 200
  /\ responses[1].body.count = 2

====
